---- MODULE Spec2Model ----
(***************************************************************************)
(* A model of mm.c, the 64-bit explicit free list allocator with boundary  *)
(* tag coalescing and footer-less allocated blocks.                        *)
(*                                                                         *)
(* Memory is a map from byte addresses of words to word values.  Only the  *)
(* words that differ from `junk', the content of fresh memory, are kept;   *)
(* every other word reads as junk.  Addresses are byte                     *)
(* addresses; NULL is 0.  Words and size_t values are unsigned integers    *)
(* of WordBits bits, and all size_t arithmetic is done modulo 2^WordBits.  *)
(***************************************************************************)
EXTENDS Integers, Sequences, FiniteSets, TLC

(***************************************************************************)
(* Bounds of the model.                                                    *)
(***************************************************************************)
\* width of word_t / size_t in the model (uint64_t in the program)
WordBits == 16
\* the most bytes mem_sbrk hands out before it fails (MAX_HEAP of memlib)
MaxHeap == 8320
\* the most pointers the client holds at a time
MaxLive == 2
\* the most calls and stores the client makes after mm_init
MaxCalls == 4
\* the most blocks a scan of the free list visits before it counts as endless
FitFuel == 64
\* the most blocks a walk of the heap in address order visits
WalkFuel == 64
\* pack is applied to the sizes 16 * k, k up to MaxPackK
MaxPackK == 16

WordMod == 2 ^ WordBits
SIZE_MAX == WordMod - 1
NULL == 0

(***************************************************************************)
(* Basic constants, mm.c lines 58-66.                                      *)
(***************************************************************************)
wsize == 8
dsize == 2 * wsize
min_block_size == 4 * wsize
chunksize == 4096
alloc_mask == 1
prev_alloc_mask == 2

\* first byte of the heap region of memlib (16-byte aligned, as malloc gives)
mem_heap_lo == 16

\* size_t arithmetic wraps
Wrap(x) == x % WordMod

\* w | mask for a mask of one bit
BitSet(w, mask) == IF (w \div mask) % 2 = 1 THEN w ELSE w + mask

\* w & mask != 0 for a mask of one bit
BitTest(w, mask) == (w \div mask) % 2 = 1

max(x, y) == IF x > y THEN x ELSE y

\* n * ((size + (n-1)) / n), on size_t
round_up(size, n) == Wrap(n * (Wrap(size + (n - 1)) \div n))

\* pack as the code branches: prev_alloc is tested first
pack(size, prev_alloc, alloc) ==
    IF ~prev_alloc THEN BitSet(size, alloc_mask)
    ELSE IF ~alloc THEN BitSet(size, prev_alloc_mask)
    ELSE IF alloc /\ prev_alloc
         THEN BitSet(BitSet(size, prev_alloc_mask), alloc_mask)
    ELSE size

\* word & size_mask, size_mask = ~0xF: the low four bits are cleared
extract_size(word) == word - (word % 16)

extract_alloc(word) == BitTest(word, alloc_mask)

extract_prev_alloc(word) == BitTest(word, prev_alloc_mask)


(***************************************************************************)
(* The state of the program.                                               *)
(*   mem             the words that differ from junk, by byte address      *)
(*   junk            what fresh, never written memory holds                *)
(*   mem_brk         bytes handed out by mem_sbrk so far                   *)
(*   heap_start      the global heap_start                                 *)
(*   freelist_start  the global freelist_start                             *)
(*   phase           where the client is: before mm_init, running, or      *)
(*                   stopped because mm_init returned false                *)
(*   live            the pointers the client holds, with the size asked    *)
(*   last            the last completed call, its arguments and result     *)
(*   calls           how many calls and stores the client has made         *)
(*   probe           one application of a pure helper: its arguments and,  *)
(*                   once applied, its result                              *)
(***************************************************************************)
VARIABLES mem, junk, mem_brk, heap_start, freelist_start, phase, live, last,
          calls, probe

vars == <<mem, junk, mem_brk, heap_start, freelist_start, phase, live, last,
          calls, probe>>

\* the allocator's memory and globals as one value, threaded through a call;
\* sbrk logs the requests made to mem_sbrk during the call
\* bad records a store outside the memory memlib owns
Cur == [mem |-> mem, brk |-> mem_brk, hs |-> heap_start,
        fl |-> freelist_start, sbrk |-> <<>>, bad |-> FALSE]

\* the addresses of memlib's array
InArena(a) == a >= mem_heap_lo /\ a < mem_heap_lo + MaxHeap

\* *a
Rd(s, a) == IF a \in DOMAIN s.mem THEN s.mem[a] ELSE junk

\* *a = v
Wr(s, a, v) ==
    [s EXCEPT !.mem = [x \in IF v = junk THEN (DOMAIN s.mem) \ {a}
                                         ELSE (DOMAIN s.mem) \cup {a} |->
                          IF x = a THEN v ELSE s.mem[x]],
              !.bad = @ \/ ~InArena(a)]

\* (void *)-1
SBRK_FAIL == SIZE_MAX

\* mem_sbrk of memlib: the region grows contiguously, or the call fails and
\* nothing changes; ok is the environment's decision to let it succeed
mem_sbrk(s, incr, ok) ==
    IF ~ok \/ s.brk + incr > MaxHeap
    THEN [st |-> [s EXCEPT !.sbrk = Append(@, [incr |-> incr, ok |-> FALSE])],
          ret |-> SBRK_FAIL]
    ELSE [st |-> [s EXCEPT !.brk = @ + incr,
                           !.sbrk = Append(@, [incr |-> incr, ok |-> TRUE])],
          ret |-> mem_heap_lo + s.brk]

\* field offsets of block_t: header, then the union of {prev, next} and payload
off_prev == wsize
off_next == 2 * wsize
off_payload == wsize

get_size(s, block) == extract_size(Rd(s, block))

get_alloc(s, block) == extract_alloc(Rd(s, block))

get_prev_alloc(s, block) == extract_prev_alloc(Rd(s, block))

get_payload_size(s, block) ==
    IF get_alloc(s, block) THEN Wrap(get_size(s, block) - wsize)
    ELSE Wrap(get_size(s, block) - dsize)

write_header(s, block, size, prev_alloc, alloc) ==
    Wr(s, block, pack(size, prev_alloc, alloc))

\* the footer's place comes from the size in the header as it is now
write_footer(s, block, size, prev_alloc, alloc) ==
    Wr(s, Wrap(block + off_payload + get_size(s, block) - dsize),
       pack(size, prev_alloc, alloc))

find_next(s, block) == Wrap(block + get_size(s, block))

find_prev_footer(block) == Wrap(block - wsize)

find_prev(s, block) ==
    Wrap(block - extract_size(Rd(s, find_prev_footer(block))))

payload_to_header(bp) == Wrap(bp - off_payload)

header_to_payload(block) == Wrap(block + off_payload)

set_next_prev_alloc(s, block0, prev_alloc) ==
    LET block == find_next(s, block0)
        s1 == Wr(s, block, pack(get_size(s, block), prev_alloc, get_alloc(s, block)))
    IN  IF ~get_alloc(s1, block)
        THEN write_footer(s1, block, get_size(s1, block), prev_alloc,
                          get_alloc(s1, block))
        ELSE s1

(***************************************************************************)
(* Free list, mm.c lines 153-217.                                          *)
(***************************************************************************)
fl_remove(s, block) ==
    IF block = NULL \/ get_alloc(s, block) THEN s
    ELSE LET nextptr == Rd(s, block + off_next)
             prevptr == Rd(s, block + off_prev)
             s1 == Wr(Wr(s, block + off_next, NULL), block + off_prev, NULL)
         IN  IF nextptr = NULL /\ prevptr = NULL
             THEN [s1 EXCEPT !.fl = NULL]
             ELSE IF prevptr = NULL
             THEN [Wr(s1, nextptr + off_prev, NULL) EXCEPT !.fl = nextptr]
             ELSE IF nextptr = NULL
             THEN Wr(s1, prevptr + off_next, NULL)
             ELSE Wr(Wr(s1, prevptr + off_next, nextptr),
                     nextptr + off_prev, prevptr)

fl_insert(s, block) ==
    IF block = NULL THEN s
    ELSE IF s.fl = NULL THEN [s EXCEPT !.fl = block]
    ELSE [Wr(Wr(s, block + off_next, s.fl), s.fl + off_prev, block)
            EXCEPT !.fl = block]

(***************************************************************************)
(* The functions below run their statements in order on the memory.  A     *)
(* statement that reads the memory it is about to change is an operator    *)
(* of its own, so that the state it starts in is named once:               *)
(* f_x(s, ...) is the part x of the function f, started in the state s.    *)
(***************************************************************************)
\* write_header(block, size, get_prev_alloc(block), alloc)
write_header_same_prev(s, block, size, alloc) ==
    write_header(s, block, size, get_prev_alloc(s, block), alloc)

\* write_footer(block, size, get_prev_alloc(block), alloc)
write_footer_same_prev(s, block, size, alloc) ==
    write_footer(s, block, size, get_prev_alloc(s, block), alloc)

\* block->prev = NULL; block->next = NULL;
clear_prev_next(s, block) ==
    Wr(Wr(s, block + off_prev, NULL), block + off_next, NULL)

\* block->next = NULL; block->prev = NULL;
clear_next_prev(s, block) ==
    Wr(Wr(s, block + off_next, NULL), block + off_prev, NULL)

(***************************************************************************)
(* coalesce, mm.c lines 442-515.  The result is the state and the block.   *)
(***************************************************************************)
\* case 2 after fl_remove(next_block)
coalesce_case2(s, block, next_block, size) ==
    LET sz == Wrap(size + get_size(s, next_block))
    IN  [st |-> write_footer(write_header(s, block, sz, TRUE, FALSE),
                             block, sz, TRUE, FALSE),
         ret |-> block]

\* case 3: block = find_prev(block)
coalesce_case3_block(s, block) == [st |-> s, ret |-> find_prev(s, block)]

\* case 3: write_header(find_prev(block), size, ...)
coalesce_case3_header(s, block, sz) ==
    coalesce_case3_block(
        write_header(s, find_prev(s, block), sz,
                     get_prev_alloc(s, find_prev(s, block)), FALSE),
        block)

\* case 3 after fl_remove(find_prev(block))
coalesce_case3(s, block, size) ==
    LET sz == Wrap(size + get_size(s, find_prev(s, block)))
    IN  coalesce_case3_header(
            write_footer(s, block, sz, get_prev_alloc(s, find_prev(s, block)), FALSE),
            block, sz)

\* case 4: write_footer(next_block, size, ...); block = find_prev(block)
coalesce_case4_footer(s, block, next_block, sz) ==
    coalesce_case3_block(
        write_footer(s, next_block, sz,
                     get_prev_alloc(s, find_prev(s, block)), FALSE),
        block)

\* case 4 after fl_remove(next_block); fl_remove(find_prev(block))
coalesce_case4(s, block, next_block, size) ==
    LET sz == Wrap(size + Wrap(get_size(s, find_prev(s, block))
                               + get_size(s, next_block)))
    IN  coalesce_case4_footer(
            write_header(s, find_prev(s, block), sz,
                         get_prev_alloc(s, find_prev(s, block)), FALSE),
            block, next_block, sz)

\* case 4: fl_remove(find_prev(block))
coalesce_case4_remove(s, block, next_block, size) ==
    coalesce_case4(fl_remove(s, find_prev(s, block)), block, next_block, size)

\* the statements after the four cases: set_next_prev_alloc, fl_insert, return
coalesce_end(c) ==
    [st |-> fl_insert(set_next_prev_alloc(c.st, c.ret, FALSE), c.ret),
     ret |-> c.ret]

coalesce(s, block) ==
    LET next_block == find_next(s, block)
        next_alloc == get_alloc(s, next_block)
        prev_alloc == get_prev_alloc(s, block)
        size == get_size(s, block)
    IN  coalesce_end(
            IF prev_alloc /\ next_alloc
            THEN [st |-> s, ret |-> block]
            ELSE IF prev_alloc /\ ~next_alloc
            THEN coalesce_case2(fl_remove(s, next_block), block, next_block, size)
            ELSE IF ~prev_alloc /\ next_alloc
            THEN coalesce_case3(fl_remove(s, find_prev(s, block)), block, size)
            ELSE coalesce_case4_remove(fl_remove(s, next_block), block,
                                       next_block, size))

(***************************************************************************)
(* extend_heap, mm.c lines 412-437.                                        *)
(***************************************************************************)
\* the new epilogue: write_header(find_next(block), 0, false, true)
extend_heap_epilogue(s, block) ==
    write_header(s, find_next(s, block), 0, FALSE, TRUE)

\* the statements after mem_sbrk has given the memory
extend_heap_block(s, block, size) ==
    coalesce(
        extend_heap_epilogue(
            clear_next_prev(
                write_footer_same_prev(
                    write_header_same_prev(s, block, size, FALSE),
                    block, size, FALSE),
                block),
            block),
        block)

\* the test of what mem_sbrk returned
extend_heap_sbrk(r, size) ==
    IF r.ret = SBRK_FAIL THEN [st |-> r.st, ret |-> NULL]
    ELSE extend_heap_block(r.st, payload_to_header(r.ret), size)

\* extend_heap with the block header written at the old end of the heap
\* before the result of mem_sbrk is tested
extend_heap_sbrk_early_header(r, block, size) ==
    IF r.ret = SBRK_FAIL
    THEN [st |-> write_header_same_prev(r.st, block, size, FALSE), ret |-> NULL]
    ELSE extend_heap_block(r.st, block, size)

extend_heap_early_header(s, size0, ok) ==
    extend_heap_sbrk_early_header(mem_sbrk(s, round_up(size0, dsize), ok),
                                  payload_to_header(mem_heap_lo + s.brk),
                                  round_up(size0, dsize))

extend_heap(s, size0, ok) ==
    extend_heap_sbrk(mem_sbrk(s, round_up(size0, dsize), ok),
                     round_up(size0, dsize))

(***************************************************************************)
(* place, mm.c lines 522-570.                                              *)
(***************************************************************************)
\* the block split off: header, footer, links, coalesce
place_rest(s, block_next, rest) ==
    coalesce(
        clear_prev_next(
            write_footer(write_header(s, block_next, rest, TRUE, FALSE),
                         block_next, rest, TRUE, FALSE),
            block_next),
        block_next).st

\* block_next = find_next(block), after the header of block is written
place_split(s, block, rest) == place_rest(s, find_next(s, block), rest)

\* place_removed that splits whenever bytes are left over
place_removed_splits_always(s, block, asize, csize) ==
    IF Wrap(csize - asize) >= dsize
    THEN place_split(write_header_same_prev(s, block, asize, TRUE), block,
                     Wrap(csize - asize))
    ELSE set_next_prev_alloc(write_header_same_prev(s, block, csize, TRUE),
                             block, TRUE)

\* the statements after fl_remove(block)
place_removed(s, block, asize, csize) ==
    IF Wrap(csize - asize) >= min_block_size
    THEN place_split(write_header_same_prev(s, block, asize, TRUE), block,
                     Wrap(csize - asize))
    ELSE set_next_prev_alloc(write_header_same_prev(s, block, csize, TRUE),
                             block, TRUE)

place(s, block, asize) ==
    place_removed(fl_remove(s, block), block, asize, get_size(s, block))


(***************************************************************************)
(* find_fit, mm.c lines 575-614.  i counts the blocks larger than asize    *)
(* met so far.  The loop over a list that never ends does not return:      *)
(* HANG after FitFuel rounds.                                              *)
(***************************************************************************)
FitLimit == 50
HANG == 0 - 1

\* the variables of the loop before its first test; ret is what find_fit
\* returns once the loop is left (done); examined counts the runs of the body
find_fit_enter(s) ==
    [block |-> s.fl, best_fit |-> NULL, i |-> 0, done |-> FALSE, ret |-> NULL,
     examined |-> 0]

\* find_fit_round, but i counts every block met
find_fit_round_counts_all(s, asize, l) ==
    IF l.done THEN l
    ELSE IF ~(l.block # NULL /\ l.i < FitLimit)
    THEN [l EXCEPT !.done = TRUE, !.ret = l.best_fit]
    ELSE IF asize = get_size(s, l.block)
    THEN [l EXCEPT !.done = TRUE, !.ret = l.block, !.examined = @ + 1]
    ELSE IF asize < get_size(s, l.block)
    THEN [l EXCEPT !.block = Rd(s, l.block + off_next),
                   !.best_fit = IF l.i = 0 THEN l.block
                                ELSE IF get_size(s, l.block) < get_size(s, l.best_fit)
                                THEN l.block
                                ELSE l.best_fit,
                   !.i = l.i + 1,
                   !.examined = @ + 1]
    ELSE [l EXCEPT !.block = Rd(s, l.block + off_next), !.i = l.i + 1,
                   !.examined = @ + 1]

\* find_fit_round, but the first block larger than asize is kept
find_fit_round_first_fit(s, asize, l) ==
    IF l.done THEN l
    ELSE IF ~(l.block # NULL /\ l.i < FitLimit)
    THEN [l EXCEPT !.done = TRUE, !.ret = l.best_fit]
    ELSE IF asize = get_size(s, l.block)
    THEN [l EXCEPT !.done = TRUE, !.ret = l.block, !.examined = @ + 1]
    ELSE IF asize < get_size(s, l.block)
    THEN [l EXCEPT !.block = Rd(s, l.block + off_next),
                   !.best_fit = IF l.i = 0 THEN l.block ELSE l.best_fit,
                   !.i = l.i + 1, !.examined = @ + 1]
    ELSE [l EXCEPT !.block = Rd(s, l.block + off_next), !.examined = @ + 1]

\* one test of the loop and, when it passes, one run of its body
find_fit_round(s, asize, l) ==
    IF l.done THEN l
    ELSE IF ~(l.block # NULL /\ l.i < FitLimit)
    THEN [l EXCEPT !.done = TRUE, !.ret = l.best_fit]
    ELSE IF asize = get_size(s, l.block)
    THEN [l EXCEPT !.done = TRUE, !.ret = l.block, !.examined = @ + 1]
    ELSE IF asize < get_size(s, l.block)
    THEN [l EXCEPT !.block = Rd(s, l.block + off_next),
                   !.best_fit = IF l.i = 0 THEN l.block
                                ELSE IF get_size(s, l.block) < get_size(s, l.best_fit)
                                THEN l.block
                                ELSE l.best_fit,
                   !.i = l.i + 1,
                   !.examined = @ + 1]
    ELSE [l EXCEPT !.block = Rd(s, l.block + off_next), !.examined = @ + 1]

\* n rounds, one after the other
RECURSIVE find_fit_rounds(_, _, _, _)
find_fit_rounds(s, asize, l, n) ==
    IF n = 0 \/ l.done THEN l
    ELSE IF n = 1 THEN find_fit_round(s, asize, l)
    ELSE find_fit_rounds(s, asize, find_fit_rounds(s, asize, l, n \div 2),
                         n - (n \div 2))

\* the loop has been left, or it runs on
find_fit_left(l) == IF l.done THEN l.ret ELSE HANG

find_fit(s, asize) ==
    find_fit_left(find_fit_rounds(s, asize, find_fit_enter(s), FitFuel))

(***************************************************************************)
(* mm_init, mm.c lines 223-246.                                            *)
(***************************************************************************)
\* mm_init that does not test what extend_heap(chunksize) gave
mm_init_extended_unchecked(e) == [st |-> e.st, ret |-> TRUE]

\* what extend_heap(chunksize) gave
mm_init_extended(e) == [st |-> e.st, ret |-> e.ret # NULL]

\* the statements after mem_sbrk has given the two words at start
mm_init_heap(s, start, ok2) ==
    mm_init_extended(
        extend_heap(
            [Wr(Wr(s, start, pack(0, TRUE, TRUE)),
                start + wsize, pack(0, TRUE, TRUE))
                EXCEPT !.hs = start + wsize, !.fl = NULL],
            chunksize, ok2))

\* the test of what mem_sbrk returned
mm_init_sbrk(r, ok2) ==
    IF r.ret = SBRK_FAIL THEN [st |-> r.st, ret |-> FALSE]
    ELSE mm_init_heap(r.st, r.ret, ok2)

mm_init(s, ok1, ok2) == mm_init_sbrk(mem_sbrk(s, 2 * wsize, ok1), ok2)

(***************************************************************************)
(* malloc, mm.c lines 251-301.  hang: the call does not return.            *)
(***************************************************************************)
adjust(size) ==
    LET asize == round_up(Wrap(size + wsize), dsize)
    IN  IF asize < min_block_size THEN min_block_size ELSE asize

\* place(block, asize) unless extend_heap gave no block; e is the state and
\* the block found or made
malloc_place(e, asize) ==
    IF e.ret = NULL THEN [st |-> e.st, ret |-> NULL, hang |-> FALSE]
    ELSE [st |-> place(e.st, e.ret, asize), ret |-> header_to_payload(e.ret),
          hang |-> FALSE]

\* malloc_fit that grows the heap by asize, however small
malloc_fit_grows_asize(s, asize, fit, ok) ==
    IF fit = HANG THEN [st |-> s, ret |-> NULL, hang |-> TRUE]
    ELSE malloc_place(IF fit = NULL
                      THEN extend_heap(s, asize, ok)
                      ELSE [st |-> s, ret |-> fit],
                      asize)

\* the statements after find_fit
malloc_fit(s, asize, fit, ok) ==
    IF fit = HANG THEN [st |-> s, ret |-> NULL, hang |-> TRUE]
    ELSE malloc_place(IF fit = NULL
                      THEN extend_heap(s, max(asize, chunksize), ok)
                      ELSE [st |-> s, ret |-> fit],
                      asize)

\* malloc_ready without the test size == 0
malloc_ready_serves_zero(s, size, ok) ==
    malloc_fit(s, adjust(size), find_fit(s, adjust(size)), ok)

\* the statements after the heap is known to be initialized
malloc_ready(s, size, ok) ==
    IF size = 0 THEN [st |-> s, ret |-> NULL, hang |-> FALSE]
    ELSE malloc_fit(s, adjust(size), find_fit(s, adjust(size)), ok)

malloc(s0, size, ok) ==
    malloc_ready(IF s0.hs = NULL THEN mm_init(s0, ok, ok).st ELSE s0, size, ok)

(***************************************************************************)
(* free, mm.c lines 306-333.                                               *)
(***************************************************************************)
\* free_block that marks the block free and leaves it out of the free list
free_block_unlisted(s, block, size) ==
    clear_prev_next(
        write_footer_same_prev(
            write_header_same_prev(s, block, size, FALSE),
            block, size, FALSE),
        block)

free_block(s, block, size) ==
    coalesce(
        clear_prev_next(
            write_footer_same_prev(
                write_header_same_prev(s, block, size, FALSE),
                block, size, FALSE),
            block),
        block).st

\* free without the test bp == NULL
free_unchecked(s, bp) ==
    free_block(s, payload_to_header(bp), get_size(s, payload_to_header(bp)))

free(s, bp) ==
    IF bp = NULL THEN s
    ELSE free_block(s, payload_to_header(bp), get_size(s, payload_to_header(bp)))


(***************************************************************************)
(* memcpy and memset of the C library, on words.  A count that is not a    *)
(* multiple of the word size changes the low bytes of one more word.       *)
(* memcpy of overlapping regions copies from the regions as they were.     *)
(***************************************************************************)
ByteMod(k) == IF 8 * k >= WordBits THEN WordMod ELSE 2 ^ (8 * k)

MixBytes(srcw, dstw, k) == (srcw % ByteMod(k)) + (dstw - (dstw % ByteMod(k)))

memcpy(s, dst, src, n) ==
    LET nw == n \div wsize
        k == n % wsize
        m == s.mem
        inDst(a) == a >= dst /\ a < dst + wsize * nw
        srcWords == {a \in DOMAIN m : a >= src /\ a < src + wsize * nw}
        newDom == {a \in DOMAIN m : ~inDst(a)} \cup {a - src + dst : a \in srcWords}
        s1 == [s EXCEPT !.mem = [a \in newDom |->
                                    IF inDst(a) THEN m[a - dst + src] ELSE m[a]],
                        !.bad = @ \/ (n > 0 /\ ~(InArena(dst) /\ InArena(dst + n - 1)))]
    IN  IF k = 0 THEN s1
        ELSE Wr(s1, dst + wsize * nw,
                MixBytes(Rd(s, src + wsize * nw), Rd(s1, dst + wsize * nw), k))

memset0(s, bp, n) ==
    LET nw == n \div wsize
        k == n % wsize
        m == s.mem
        inDst(a) == a >= bp /\ a < bp + wsize * nw
        newDom == IF junk = 0 THEN {a \in DOMAIN m : ~inDst(a)}
                  ELSE (DOMAIN m) \cup {bp + wsize * i : i \in 0 .. (nw - 1)}
        s1 == [s EXCEPT !.mem = [a \in newDom |-> IF inDst(a) THEN 0 ELSE m[a]],
                        !.bad = @ \/ (n > 0 /\ ~(InArena(bp) /\ InArena(bp + n - 1)))]
    IN  IF k = 0 THEN s1
        ELSE Wr(s1, bp + wsize * nw, MixBytes(0, Rd(s1, bp + wsize * nw), k))

(***************************************************************************)
(* realloc, mm.c lines 338-378.                                            *)
(***************************************************************************)
\* realloc_copy, but a failed malloc releases the old block
realloc_copy_release_on_failure(r, ptr, size, block) ==
    IF r.hang THEN r
    ELSE IF r.ret = NULL THEN [st |-> free(r.st, ptr), ret |-> NULL, hang |-> FALSE]
    ELSE [st |-> free(memcpy(r.st, r.ret, ptr,
                             IF size < get_payload_size(r.st, block) THEN size
                             ELSE get_payload_size(r.st, block)),
                      ptr),
          ret |-> r.ret, hang |-> FALSE]

\* the statements after newptr = malloc(size)
realloc_copy(r, ptr, size, block) ==
    IF r.hang \/ r.ret = NULL THEN r
    ELSE [st |-> free(memcpy(r.st, r.ret, ptr,
                             IF size < get_payload_size(r.st, block) THEN size
                             ELSE get_payload_size(r.st, block)),
                      ptr),
          ret |-> r.ret, hang |-> FALSE]

\* realloc without the case size == 0
realloc_zero_as_malloc(s, ptr, size, ok) ==
    IF ptr = NULL THEN malloc(s, size, ok)
    ELSE realloc_copy(malloc(s, size, ok), ptr, size, payload_to_header(ptr))

\* realloc that gives nothing for ptr == NULL
realloc_null_gives_null(s, ptr, size, ok) ==
    IF size = 0 THEN [st |-> free(s, ptr), ret |-> NULL, hang |-> FALSE]
    ELSE IF ptr = NULL THEN [st |-> s, ret |-> NULL, hang |-> FALSE]
    ELSE realloc_copy(malloc(s, size, ok), ptr, size, payload_to_header(ptr))

realloc(s, ptr, size, ok) ==
    IF size = 0 THEN [st |-> free(s, ptr), ret |-> NULL, hang |-> FALSE]
    ELSE IF ptr = NULL THEN malloc(s, size, ok)
    ELSE realloc_copy(malloc(s, size, ok), ptr, size, payload_to_header(ptr))

(***************************************************************************)
(* calloc, mm.c lines 383-404.  elements * size is a size_t product.  With *)
(* elements = 0 the test divides by zero, which the language leaves        *)
(* undefined: the division traps and the call does not return, or it       *)
(* yields some quotient and the call goes on; div0 is what it does.        *)
(***************************************************************************)
MulWrap(a, b) == Wrap(a * (b % 256) + Wrap(a * (b \div 256)) * 256)

\* the division does not return
TRAP == HANG

\* what a division by zero can do; a is a number that the quotient may equal
DivByZero(a) == {TRAP, 0, a, SIZE_MAX}

\* asize / elements
calloc_quotient(asize, elements, div0) ==
    IF elements = 0 THEN div0 ELSE asize \div elements

\* the statements after bp = malloc(asize)
calloc_zero(r, asize) ==
    IF r.hang \/ r.ret = NULL THEN r
    ELSE [st |-> memset0(r.st, r.ret, asize), ret |-> r.ret, hang |-> FALSE]

\* calloc without the test of the product
calloc_unchecked(s, elements, size, ok, div0) ==
    IF calloc_quotient(MulWrap(elements, size), elements, div0) = TRAP
    THEN [st |-> s, ret |-> NULL, hang |-> TRUE]
    ELSE calloc_zero(malloc(s, MulWrap(elements, size), ok),
                     MulWrap(elements, size))

calloc(s, elements, size, ok, div0) ==
    IF calloc_quotient(MulWrap(elements, size), elements, div0) = TRAP
    THEN [st |-> s, ret |-> NULL, hang |-> TRUE]
    ELSE IF calloc_quotient(MulWrap(elements, size), elements, div0) # size
    THEN [st |-> s, ret |-> NULL, hang |-> FALSE]
    ELSE calloc_zero(malloc(s, MulWrap(elements, size), ok),
                     MulWrap(elements, size))


(***************************************************************************)
(* mm_checkheap and its seven checks, mm.c lines 623-859.  They read the   *)
(* heap and store nothing.  A check gives 1 for true and 0 for false, and  *)
(* HANG when its loop does not end within WalkFuel rounds.                 *)
(***************************************************************************)
\* mm.c lines 713-726
RECURSIVE check_freeblock_coalesce_loop(_, _, _)
check_freeblock_coalesce_loop(s, block, fuel) ==
    IF ~(get_size(s, block) > 0 /\ get_size(s, find_next(s, block)) > 0) THEN 1
    ELSE IF ~get_alloc(s, block) /\ ~get_alloc(s, find_next(s, block)) THEN 0
    ELSE IF fuel = 0 THEN HANG
    ELSE check_freeblock_coalesce_loop(s, find_next(s, block), fuel - 1)

check_freeblock_coalesce(s) == check_freeblock_coalesce_loop(s, s.hs, WalkFuel)

\* mm.c lines 734-751
RECURSIVE check_prev_alloc_loop(_, _, _)
check_prev_alloc_loop(s, block, fuel) ==
    IF get_size(s, block) = 0 THEN 1
    ELSE IF get_size(s, find_next(s, block)) = 0 THEN 1
    ELSE IF get_alloc(s, block) # get_prev_alloc(s, find_next(s, block)) THEN 0
    ELSE IF fuel = 0 THEN HANG
    ELSE check_prev_alloc_loop(s, find_next(s, block), fuel - 1)

check_prev_alloc(s) == check_prev_alloc_loop(s, s.hs, WalkFuel)

\* the first loop of check_all_freeblocks_in_freelist: i at its end
RECURSIVE count_free_in_heap(_, _, _, _)
count_free_in_heap(s, b, i, fuel) ==
    IF ~(get_size(s, b) # 0 /\ b # NULL) THEN i
    ELSE IF fuel = 0 THEN HANG
    ELSE count_free_in_heap(s, find_next(s, b),
                            IF ~get_alloc(s, b) THEN i + 1 ELSE i, fuel - 1)

\* the second loop of check_all_freeblocks_in_freelist: j at its end
RECURSIVE count_in_freelist(_, _, _, _)
count_in_freelist(s, b, j, fuel) ==
    IF ~(b # NULL /\ get_size(s, b) # 0) THEN j
    ELSE IF fuel = 0 THEN HANG
    ELSE count_in_freelist(s, Rd(s, b + off_next), j + 1, fuel - 1)

\* the comparison of the two counts
compare_counts(i, j) ==
    IF i = HANG \/ j = HANG THEN HANG ELSE IF i # j THEN 0 ELSE 1

\* mm.c lines 759-780
check_all_freeblocks_in_freelist(s) ==
    compare_counts(count_free_in_heap(s, s.hs, 0, WalkFuel),
                   count_in_freelist(s, s.fl, 0, WalkFuel))

\* mm.c lines 788-801
RECURSIVE check_if_size_smaller_than_minsize_loop(_, _, _)
check_if_size_smaller_than_minsize_loop(s, block, fuel) ==
    IF ~(get_size(s, block) > 0) THEN 1
    ELSE IF get_size(s, block) < min_block_size THEN 0
    ELSE IF fuel = 0 THEN HANG
    ELSE check_if_size_smaller_than_minsize_loop(s, find_next(s, block), fuel - 1)

check_if_size_smaller_than_minsize(s) ==
    check_if_size_smaller_than_minsize_loop(s, s.hs, WalkFuel)

\* mm.c lines 807-818; next is b->next, read once more in the test
RECURSIVE check_freelist_correctly_linked_loop(_, _, _)
check_freelist_correctly_linked_loop(s, b, fuel) ==
    IF ~(b # NULL /\ Rd(s, b + off_next) # NULL) THEN 1
    ELSE IF ~(Rd(s, b + off_next) = Rd(s, b + off_next) /\
              Rd(s, Rd(s, b + off_next) + off_prev) = b) THEN 0
    ELSE IF fuel = 0 THEN HANG
    ELSE check_freelist_correctly_linked_loop(s, Rd(s, b + off_next), fuel - 1)

check_freelist_correctly_linked(s) ==
    check_freelist_correctly_linked_loop(s, s.fl, WalkFuel)

\* mm.c lines 826-839; next is block plus its size, as find_next computes it
RECURSIVE check_alloc_block_overlap_loop(_, _, _)
check_alloc_block_overlap_loop(s, block, fuel) ==
    IF ~(get_size(s, block) # 0 /\ find_next(s, block) # NULL) THEN 1
    ELSE IF Wrap(block + get_size(s, block)) # find_next(s, block) THEN 0
    ELSE IF fuel = 0 THEN HANG
    ELSE check_alloc_block_overlap_loop(s, find_next(s, block), fuel - 1)

check_alloc_block_overlap(s) == check_alloc_block_overlap_loop(s, s.hs, WalkFuel)

\* mm.c lines 847-859
RECURSIVE check_pointer_valid_loop(_, _, _)
check_pointer_valid_loop(s, block, fuel) ==
    IF ~(get_size(s, block) > 0) THEN 1
    ELSE IF Rd(s, block) = NULL THEN 0
    ELSE IF header_to_payload(block) = NULL THEN 0
    ELSE IF fuel = 0 THEN HANG
    ELSE check_pointer_valid_loop(s, find_next(s, block), fuel - 1)

check_pointer_valid(s) == check_pointer_valid_loop(s, s.hs, WalkFuel)

\* the rest of mm_checkheap after a check gave r: its own result unless r is 1
checkheap_then(r, rest) == IF r # 1 THEN r ELSE rest

\* mm.c lines 623-668
mm_checkheap(s) ==
    checkheap_then(check_freeblock_coalesce(s),
    checkheap_then(check_prev_alloc(s),
    checkheap_then(check_all_freeblocks_in_freelist(s),
    checkheap_then(check_if_size_smaller_than_minsize(s),
    checkheap_then(check_freelist_correctly_linked(s),
    checkheap_then(check_alloc_block_overlap(s),
                   check_pointer_valid(s)))))))


(***************************************************************************)
(* The client.  It calls mm_init first and goes on only if that returned   *)
(* true.  It then calls malloc, free, realloc and calloc with the sizes    *)
(* below, frees and resizes only pointers it holds, and stores data only   *)
(* inside the bytes it asked for and was given.  Each action takes the     *)
(* result of the whole call, r, and makes it the next state.               *)
(***************************************************************************)
\* what fresh memory may hold
FreshWords == {0, 48}
\* the words the client stores in its blocks
UserWords == {48}
\* request sizes: zero, below the minimum block, ordinary, a whole chunk, more
\* than a chunk, and the sizes next to SIZE_MAX
Sizes == {0, 1, 100, 4088, 4089, SIZE_MAX - 7, SIZE_MAX - 23}
\* the new sizes of realloc
ReallocSizes == {0, 1, 40, SIZE_MAX - 7}
\* calloc's (elements, size) pairs
CallocArgs == {<<3, 8>>, <<SIZE_MAX, 2>>, <<256, 256>>, <<0, 8>>}
\* the client stores into the first FillWords words of a block
FillWords == 12

NoCall == [op |-> "none", ptr |-> NULL, size |-> 0, nmemb |-> 0, ret |-> NULL,
           sbrk |-> <<>>, dup |-> FALSE]

\* no helper is being probed
NoProbe == [fn |-> "none", size |-> 0, prev_alloc |-> FALSE, alloc |-> FALSE,
            word |-> 0, examined |-> 0, done |-> FALSE]

Init ==
    /\ mem = [a \in {} |-> 0]
    /\ junk \in FreshWords
    /\ mem_brk = 0
    /\ heap_start = NULL
    /\ freelist_start = NULL
    /\ phase = "start"
    /\ live = [p \in {} |-> 0]
    /\ last = NoCall
    /\ calls = 0
    /\ probe = NoProbe

\* the call's final memory and globals become the program's
Commit(st) ==
    /\ mem' = st.mem
    /\ mem_brk' = st.brk
    /\ heap_start' = st.hs
    /\ freelist_start' = st.fl
    /\ junk' = junk

\* the client holds p, got for a request of size bytes
Hold(st, p, size) ==
    [q \in (DOMAIN live) \cup {p} |->
        IF q = p THEN [size |-> size, cap |-> get_payload_size(st, payload_to_header(p))]
        ELSE live[q]]

Drop(p) == [q \in (DOMAIN live) \ {p} |-> live[q]]

Returned(r) == ~r.hang /\ ~r.st.bad

\* the client is running and makes one more step
Step ==
    /\ phase = "run"
    /\ calls < MaxCalls
    /\ calls' = calls + 1
    /\ phase' = phase
    /\ probe' = probe

MmInit ==
    /\ phase = "start"
    /\ \E ok1, ok2 \in BOOLEAN :
          \E r \in {mm_init(Cur, ok1, ok2)} :
              /\ Commit(r.st)
              /\ phase' = IF r.ret THEN "run" ELSE "failed"
              /\ last' = [NoCall EXCEPT !.op = "mm_init",
                                        !.ret = IF r.ret THEN 1 ELSE 0,
                                        !.sbrk = r.st.sbrk]
    /\ UNCHANGED <<live, calls, probe>>

Malloc ==
    /\ Step
    /\ Cardinality(DOMAIN live) < MaxLive
    /\ \E size \in Sizes, ok \in BOOLEAN :
          \E r \in {malloc(Cur, size, ok)} :
              /\ Returned(r)
              /\ Commit(r.st)
              /\ live' = IF r.ret = NULL THEN live ELSE Hold(r.st, r.ret, size)
              /\ last' = [NoCall EXCEPT !.op = "malloc", !.size = size,
                                        !.ret = r.ret, !.sbrk = r.st.sbrk,
                                        !.dup = r.ret \in DOMAIN live]

Free ==
    /\ Step
    /\ \E p \in (DOMAIN live) \cup {NULL} :
          \E st \in {free(Cur, p)} :
              /\ ~st.bad
              /\ Commit(st)
              /\ live' = Drop(p)
              /\ last' = [NoCall EXCEPT !.op = "free", !.ptr = p]

Realloc ==
    /\ Step
    /\ \E p \in (DOMAIN live) \cup {NULL}, size \in ReallocSizes, ok \in BOOLEAN :
          /\ p = NULL => Cardinality(DOMAIN live) < MaxLive
          /\ \E r \in {realloc(Cur, p, size, ok)} :
             LET kept == IF size = 0 \/ r.ret # NULL THEN Drop(p) ELSE live
             IN  /\ Returned(r)
                 /\ Commit(r.st)
                 /\ live' = IF r.ret = NULL THEN kept
                            ELSE [q \in (DOMAIN kept) \cup {r.ret} |->
                                     IF q = r.ret THEN Hold(r.st, r.ret, size)[r.ret]
                                     ELSE kept[q]]
                 /\ last' = [NoCall EXCEPT !.op = "realloc", !.ptr = p,
                                           !.size = size, !.ret = r.ret,
                                           !.sbrk = r.st.sbrk,
                                           !.dup = r.ret \in DOMAIN live]

Calloc ==
    /\ Step
    /\ Cardinality(DOMAIN live) < MaxLive
    /\ \E args \in CallocArgs, ok \in BOOLEAN :
          \E div0 \in DivByZero(args[2]) :
              \E r \in {calloc(Cur, args[1], args[2], ok, div0)} :
                  /\ Returned(r)
                  /\ Commit(r.st)
                  /\ live' = IF r.ret = NULL THEN live
                             ELSE Hold(r.st, r.ret, MulWrap(args[1], args[2]))
                  /\ last' = [NoCall EXCEPT !.op = "calloc", !.nmemb = args[1],
                                            !.size = args[2], !.ret = r.ret,
                                            !.sbrk = r.st.sbrk,
                                            !.dup = r.ret \in DOMAIN live]

\* the client fills the first whole words of its block with v
UserFill ==
    /\ Step
    /\ \E p \in DOMAIN live, v \in UserWords :
          LET n == IF live[p].size < live[p].cap THEN live[p].size ELSE live[p].cap
              nw == IF n \div wsize < FillWords THEN n \div wsize ELSE FillWords
              inDst(a) == a >= p /\ a < p + wsize * nw
              newDom == IF v = junk THEN {a \in DOMAIN mem : ~inDst(a)}
                        ELSE (DOMAIN mem) \cup {p + wsize * i : i \in 0 .. (nw - 1)}
          IN  /\ nw > 0
              /\ mem' = [a \in newDom |-> IF inDst(a) THEN v ELSE mem[a]]
              /\ last' = [NoCall EXCEPT !.op = "write", !.ptr = p]
    /\ UNCHANGED <<junk, mem_brk, heap_start, freelist_start, live>>

Next == MmInit \/ Malloc \/ Free \/ Realloc \/ Calloc \/ UserFill

Spec == Init /\ [][Next]_vars


(***************************************************************************)
(* The header helpers on their own: pack is applied once to a size that    *)
(* is a multiple of 16 and a pair of flags, all drawn by the initial       *)
(* state.  The allocator is not started.                                   *)
(***************************************************************************)
\* sizes 0, 16, ..., 16 * MaxPackK and the largest multiple of 16 of size_t
PackSizes == {dsize * k : k \in 0 .. MaxPackK} \cup {SIZE_MAX - 15}

InitPack ==
    /\ mem = [a \in {} |-> 0]
    /\ junk = 0
    /\ mem_brk = 0
    /\ heap_start = NULL
    /\ freelist_start = NULL
    /\ phase = "probe"
    /\ live = [p \in {} |-> 0]
    /\ last = NoCall
    /\ calls = 0
    /\ \E size \in PackSizes, prev_alloc, alloc \in BOOLEAN :
          probe = [NoProbe EXCEPT !.fn = "pack", !.size = size,
                                  !.prev_alloc = prev_alloc, !.alloc = alloc]

Pack ==
    /\ probe.fn = "pack"
    /\ ~probe.done
    /\ probe' = [probe EXCEPT !.word = pack(probe.size, probe.prev_alloc, probe.alloc),
                              !.done = TRUE]
    /\ UNCHANGED <<mem, junk, mem_brk, heap_start, freelist_start, phase, live,
                   last, calls>>

NextPack == Pack

SpecPack == InitPack /\ [][NextPack]_vars

(***************************************************************************)
(* A client that, on a heap mm_init has just made, calls p = malloc(n),    *)
(* free(p) and malloc(n) again, for the request sizes n below: sizes that  *)
(* split the first free block, sizes that take it whole, sizes that make   *)
(* the heap grow, and sizes next to SIZE_MAX.                              *)
(***************************************************************************)
ReuseSizes == {1, 24, 25, 100, 2040, 4056, 4057, 4072, 4073, 4088, 4089, 4200,
               SIZE_MAX - 23, SIZE_MAX - 7}

InitReuse ==
    /\ mem = [a \in {} |-> 0]
    /\ junk \in FreshWords
    /\ mem_brk = 0
    /\ heap_start = NULL
    /\ freelist_start = NULL
    /\ phase = "start"
    /\ live = [p \in {} |-> 0]
    /\ last = NoCall
    /\ calls = 0
    /\ \E size \in ReuseSizes : probe = [NoProbe EXCEPT !.fn = "reuse", !.size = size]

\* p = malloc(n), and later q = malloc(n)
ReuseMalloc ==
    /\ Step
    /\ probe.fn = "reuse"
    /\ calls \in {0, 2}
    /\ calls = 2 => last.op = "free"
    /\ \E ok \in BOOLEAN :
          \E r \in {malloc(Cur, probe.size, ok)} :
              /\ Returned(r)
              /\ Commit(r.st)
              /\ live' = IF r.ret = NULL THEN live ELSE Hold(r.st, r.ret, probe.size)
              /\ last' = [NoCall EXCEPT !.op = "malloc", !.size = probe.size,
                                        !.ret = r.ret, !.sbrk = r.st.sbrk,
                                        !.dup = r.ret \in DOMAIN live]

\* free(p)
ReuseFree ==
    /\ Step
    /\ probe.fn = "reuse"
    /\ calls = 1
    /\ \E p \in DOMAIN live :
          \E st \in {free(Cur, p)} :
              /\ ~st.bad
              /\ Commit(st)
              /\ live' = Drop(p)
              /\ last' = [NoCall EXCEPT !.op = "free", !.ptr = p]

NextReuse == MmInit \/ ReuseMalloc \/ ReuseFree

SpecReuse == InitReuse /\ [][NextReuse]_vars

(***************************************************************************)
(* A client that calls mm_init and then malloc and free only, with request *)
(* sizes that split a free block, that fit a free block of 48 bytes, that  *)
(* fill the chunk, and that wrap.                                          *)
(***************************************************************************)
PlaceSizes == {1, 40, 100, 4088, SIZE_MAX - 7}

InitPlace ==
    /\ mem = [a \in {} |-> 0]
    /\ junk \in FreshWords
    /\ mem_brk = 0
    /\ heap_start = NULL
    /\ freelist_start = NULL
    /\ phase = "start"
    /\ live = [p \in {} |-> 0]
    /\ last = NoCall
    /\ calls = 0
    /\ probe = [NoProbe EXCEPT !.fn = "place"]

PlaceMalloc ==
    /\ Step
    /\ probe.fn = "place"
    /\ Cardinality(DOMAIN live) < MaxLive
    /\ \E size \in PlaceSizes, ok \in BOOLEAN :
          \E r \in {malloc(Cur, size, ok)} :
              /\ Returned(r)
              /\ Commit(r.st)
              /\ live' = IF r.ret = NULL THEN live ELSE Hold(r.st, r.ret, size)
              /\ last' = [NoCall EXCEPT !.op = "malloc", !.size = size,
                                        !.ret = r.ret, !.sbrk = r.st.sbrk,
                                        !.dup = r.ret \in DOMAIN live]

PlaceFree ==
    /\ Step
    /\ probe.fn = "place"
    /\ \E p \in DOMAIN live :
          \E st \in {free(Cur, p)} :
              /\ ~st.bad
              /\ Commit(st)
              /\ live' = Drop(p)
              /\ last' = [NoCall EXCEPT !.op = "free", !.ptr = p]

NextPlace == MmInit \/ PlaceMalloc \/ PlaceFree

SpecPlace == InitPlace /\ [][NextPlace]_vars

(***************************************************************************)
(* find_fit alone, on heaps of two chunks that malloc and free can make:   *)
(* count free blocks, each followed by an allocated block, then one        *)
(* allocated block up to the epilogue.  The free list holds the free       *)
(* blocks from the lowest address up (they were freed from the highest     *)
(* address down).  The sizes of the free blocks follow one of four         *)
(* patterns.                                                               *)
(***************************************************************************)
\* the most free blocks of such a heap
MaxFitBlocks == 55

FitPatterns == {"small", "large", "two", "three"}

\* the adjusted sizes asked for: 32, 48, 64, 80
FitAsizes == {dsize * k : k \in 2 .. 5}

\* the size of the k-th free block
FitSize(pat, k) ==
    IF pat = "small" THEN 2 * dsize
    ELSE IF pat = "large" THEN 4 * dsize
    ELSE IF pat = "two" THEN (IF k % 2 = 1 THEN 4 * dsize ELSE 3 * dsize)
    ELSE (IF k % 3 = 1 THEN 5 * dsize ELSE IF k % 3 = 2 THEN 4 * dsize ELSE 3 * dsize)

\* a free block and the allocated block after it
FitStride == 5 * dsize + min_block_size

\* the address of the k-th free block
FitBlock(k) == mem_heap_lo + wsize + (k - 1) * FitStride

\* the words of the heap that are not zero, as <<address, word>>
FitWords(count, pat) ==
    {<<mem_heap_lo, pack(0, TRUE, TRUE)>>,
     <<FitBlock(count + 1),
       pack(2 * chunksize - count * FitStride, TRUE, TRUE)>>,
     <<mem_heap_lo + wsize + 2 * chunksize, pack(0, TRUE, TRUE)>>}
    \cup {<<FitBlock(k), pack(FitSize(pat, k), TRUE, FALSE)>> : k \in 1 .. count}
    \cup {<<FitBlock(k) + FitSize(pat, k) - wsize, pack(FitSize(pat, k), TRUE, FALSE)>> :
             k \in 1 .. count}
    \cup {<<FitBlock(k) + off_prev, FitBlock(k - 1)>> : k \in 2 .. count}
    \cup {<<FitBlock(k) + off_next, FitBlock(k + 1)>> : k \in 1 .. (count - 1)}
    \cup {<<FitBlock(k) + FitSize(pat, k),
            pack(FitStride - FitSize(pat, k), FALSE, TRUE)>> : k \in 1 .. count}

FitMem(count, pat) ==
    [a \in {w[1] : w \in FitWords(count, pat)} |->
        (CHOOSE w \in FitWords(count, pat) : w[1] = a)[2]]

InitFit ==
    /\ junk = 0
    /\ mem_brk = 2 * wsize + 2 * chunksize
    /\ heap_start = mem_heap_lo + wsize
    /\ phase = "probe"
    /\ live = [p \in {} |-> 0]
    /\ last = NoCall
    /\ calls = 0
    /\ \E count \in 0 .. MaxFitBlocks, pat \in FitPatterns, asize \in FitAsizes :
          /\ mem = FitMem(count, pat)
          /\ freelist_start = IF count = 0 THEN NULL ELSE FitBlock(1)
          /\ probe = [NoProbe EXCEPT !.fn = "find_fit", !.size = asize]

FindFit ==
    /\ probe.fn = "find_fit"
    /\ ~probe.done
    /\ \E l \in {find_fit_rounds(Cur, probe.size, find_fit_enter(Cur), FitFuel)} :
          probe' = [probe EXCEPT !.word = find_fit_left(l),
                                 !.examined = l.examined,
                                 !.done = TRUE]
    /\ UNCHANGED <<mem, junk, mem_brk, heap_start, freelist_start, phase, live,
                   last, calls>>

NextFit == FindFit

SpecFit == InitFit /\ [][NextFit]_vars


(***************************************************************************)
(* Reading the heap the way the checkers of mm.c do: in address order      *)
(* from heap_start to the first header of size zero, and along the next    *)
(* pointers from freelist_start to NULL.                                   *)
(***************************************************************************)
Ready == phase = "run"

\* the bytes obtained from mem_sbrk
InHeap(a) == a >= mem_heap_lo /\ a < mem_heap_lo + mem_brk

\* one test of the loop for (b = heap_start; get_size(b) != 0; b =
\* find_next(b)) and, when it passes, one step to the next block; the loop is
\* left when b is no address of the heap
HeapWalkRound(w) ==
    IF w.done THEN w
    ELSE IF ~InHeap(w.b) \/ get_size(Cur, w.b) = 0 THEN [w EXCEPT !.done = TRUE]
    ELSE [w EXCEPT !.seq = Append(@, w.b), !.b = find_next(Cur, w.b)]

\* n rounds of that loop
RECURSIVE HeapWalkRounds(_, _)
HeapWalkRounds(w, n) ==
    IF n = 0 \/ w.done THEN w
    ELSE IF n = 1 THEN HeapWalkRound(w)
    ELSE CHOOSE r \in {HeapWalkRounds(m, n - (n \div 2)) :
                          m \in {HeapWalkRounds(w, n \div 2)}} : TRUE

\* the blocks that loop meets from b on, fuel at most
HeapWalk(b, fuel) ==
    HeapWalkRounds([seq |-> <<>>, b |-> b, done |-> FALSE], fuel).seq

\* where that loop ends
HeapWalkEnd(b, fuel) ==
    HeapWalkRounds([seq |-> <<>>, b |-> b, done |-> FALSE], fuel).b

HeapBlocks == HeapWalk(heap_start, WalkFuel)

HeapEnd == HeapWalkEnd(heap_start, WalkFuel)

\* one test of the loop for (b = freelist_start; b != 0; b = b->next) and,
\* when it passes, one step; the loop is left at the first block met a second
\* time, which is the last element of the result
ListWalkRound(w) ==
    IF w.done THEN w
    ELSE IF w.b = NULL THEN [w EXCEPT !.done = TRUE]
    ELSE IF w.b \in w.seen THEN [w EXCEPT !.seq = Append(@, w.b), !.done = TRUE]
    ELSE [w EXCEPT !.seq = Append(@, w.b), !.b = Rd(Cur, w.b + off_next),
                   !.seen = @ \cup {w.b}]

\* n rounds of that loop
RECURSIVE ListWalkRounds(_, _)
ListWalkRounds(w, n) ==
    IF n = 0 \/ w.done THEN w
    ELSE IF n = 1 THEN ListWalkRound(w)
    ELSE CHOOSE r \in {ListWalkRounds(m, n - (n \div 2)) :
                          m \in {ListWalkRounds(w, n \div 2)}} : TRUE

\* the blocks that loop meets from b on, WalkFuel at most
ListWalk(b, seen) ==
    ListWalkRounds([seq |-> <<>>, b |-> b, seen |-> seen, done |-> FALSE],
                   WalkFuel).seq

FreeList == ListWalk(freelist_start, {})

Range(f) == {f[i] : i \in DOMAIN f}

NoRepeat(f) == \A i, j \in DOMAIN f : i # j => f[i] # f[j]

RECURSIVE SumSizes(_)
SumSizes(f) == IF f = <<>> THEN 0 ELSE get_size(Cur, Head(f)) + SumSizes(Tail(f))

\* the payload region of the block whose payload starts at p
Region(p) == {a \in p .. (p + get_payload_size(Cur, payload_to_header(p)) - 1) :
                 a % wsize = 0}

\* C1: after every completed call no two physically adjacent blocks of the
\* heap are both free
C1_NoAdjacentFree ==
    Ready => \A i \in 1 .. (Len(HeapBlocks) - 1) :
                ~(~get_alloc(Cur, HeapBlocks[i]) /\ ~get_alloc(Cur, HeapBlocks[i + 1]))

\* C2: the blocks reached from freelist_start are exactly the blocks of the
\* heap whose alloc flag is false, and none is met twice
C2_FreeListIsFreeSet ==
    Ready => /\ Range(FreeList) = {b \in Range(HeapBlocks) : ~get_alloc(Cur, b)}
             /\ NoRepeat(FreeList)

\* C3: the prev_alloc bit of every block and of the epilogue header is the
\* alloc state of its physical predecessor, the prologue being allocated
C3_PrevAllocExact ==
    Ready => /\ \A i \in 1 .. Len(HeapBlocks) :
                   get_prev_alloc(Cur, HeapBlocks[i]) =
                       IF i = 1 THEN extract_alloc(Rd(Cur, mem_heap_lo))
                       ELSE get_alloc(Cur, HeapBlocks[i - 1])
             /\ get_prev_alloc(Cur, HeapEnd) =
                   IF HeapBlocks = <<>> THEN TRUE
                   ELSE get_alloc(Cur, HeapBlocks[Len(HeapBlocks)])

\* C4: the pointer a successful malloc(n), n > 0, returns is 16-byte aligned
\* and its payload region is disjoint from that of every other block the
\* client holds
C4_AlignedDisjoint ==
    (Ready /\ last.op = "malloc" /\ last.size > 0 /\ last.ret # NULL) =>
        (last.ret % dsize = 0 /\ ~last.dup /\
         \A q \in (DOMAIN live) \ {last.ret} : Region(q) \cap Region(last.ret) = {})

\* C5: the block a successful malloc(n), n > 0, hands out has at least n
\* bytes after its header, for every n of size_t
C5_CapacityAtLeastN ==
    (Ready /\ last.op = "malloc" /\ last.size > 0 /\ last.ret # NULL) =>
        get_payload_size(Cur, payload_to_header(last.ret)) >= last.size

\* C6: for every size that is a multiple of 16 and each of the four pairs of
\* flags, extract_size, extract_alloc and extract_prev_alloc applied to
\* pack(size, prev_alloc, alloc) give back size, alloc and prev_alloc
C6_PackRoundTrip ==
    (probe.fn = "pack" /\ probe.done) =>
        (extract_size(probe.word) = probe.size /\
         extract_alloc(probe.word) = probe.alloc /\
         extract_prev_alloc(probe.word) = probe.prev_alloc)

\* C7: the free list is a well-formed doubly linked list: b = a.next implies
\* b.prev = a, the head's prev is NULL, and the next pointers reach NULL
C7_ListWellFormed ==
    Ready => /\ NoRepeat(FreeList)
             /\ \A i \in 1 .. Len(FreeList) :
                   Rd(Cur, FreeList[i] + off_prev) =
                       IF i = 1 THEN NULL ELSE FreeList[i - 1]

\* C8: the blocks tile the heap: the walk from heap_start ends at a zero-size
\* allocated header in the last word obtained from mem_sbrk, the prologue word
\* is zero-size allocated, and the sizes add up to the bytes obtained less the
\* two sentinel words
C8_Tiling ==
    Ready => /\ heap_start = mem_heap_lo + wsize
             /\ HeapEnd = mem_heap_lo + mem_brk - wsize
             /\ get_size(Cur, HeapEnd) = 0 /\ get_alloc(Cur, HeapEnd)
             /\ extract_size(Rd(Cur, mem_heap_lo)) = 0
             /\ extract_alloc(Rd(Cur, mem_heap_lo))
             /\ SumSizes(HeapBlocks) = mem_brk - 2 * wsize

\* C9: every block of the heap has a size that is a multiple of 16 and at
\* least min_block_size
C9_SizesLegal ==
    Ready => \A b \in Range(HeapBlocks) :
                get_size(Cur, b) % dsize = 0 /\ get_size(Cur, b) >= min_block_size


\* the last request to mem_sbrk of the call failed
GrowthFailed(log) == log # <<>> /\ ~log[Len(log)].ok

\* C10: a malloc(n), n > 0, that finds no fit and whose request to grow the
\* heap fails returns NULL and leaves every word of the heap, the heap
\* extent and the head of the free list as they were before the call
C10_FailedMallocKeepsState ==
    [][(last'.op = "malloc" /\ calls' = calls + 1 /\ last'.size > 0 /\
        GrowthFailed(last'.sbrk)) =>
           (last'.ret = NULL /\ mem' = mem /\ mem_brk' = mem_brk /\
            heap_start' = heap_start /\ freelist_start' = freelist_start)]_vars

\* a malloc of a positive size has failed to grow a heap that holds a block
\* of the client and a free block
C10_Witness ==
    Ready /\ last.op = "malloc" /\ last.size > 0 /\ GrowthFailed(last.sbrk) /\
    last.ret = NULL /\ DOMAIN live # {} /\ freelist_start # NULL

\* C11: when realloc(p, n) is called with p held by the client, the block of
\* p allocated, n > 0, and the heap cannot grow for the new block, realloc
\* returns NULL, no word of memory and no global changes (so nothing is
\* copied or released and the block keeps its size and its payload), the
\* client still holds p, and the block of p is still allocated.
C11_FailedReallocKeepsBlock ==
    [][(last'.op = "realloc" /\ calls' = calls + 1 /\ last'.ptr # NULL /\
        last'.size > 0 /\ GrowthFailed(last'.sbrk) /\
        get_alloc(Cur, payload_to_header(last'.ptr))) =>
           (last'.ret = NULL /\ mem' = mem /\ mem_brk' = mem_brk /\
            heap_start' = heap_start /\ freelist_start' = freelist_start /\
            live' = live /\ last'.ptr \in DOMAIN live' /\
            \E block \in {payload_to_header(last'.ptr)} :
                (get_alloc(Cur, block) /\ get_size(Cur, block) > 0)')]_vars

C11_Witness ==
    Ready /\ last.op = "realloc" /\ last.ptr # NULL /\ last.size > 0 /\
    GrowthFailed(last.sbrk) /\ last.ret = NULL /\ last.ptr \in DOMAIN live /\
    get_alloc(Cur, payload_to_header(last.ptr))

\* the first n bytes at q in memory m2 are the first n bytes at p in memory m1
SameBytes(m2, q, m1, p, n) ==
    LET w2(a) == IF a \in DOMAIN m2 THEN m2[a] ELSE junk
        w1(a) == IF a \in DOMAIN m1 THEN m1[a] ELSE junk
    IN  /\ \A i \in 0 .. ((n \div wsize) - 1) : w2(q + wsize * i) = w1(p + wsize * i)
        /\ w2(q + wsize * (n \div wsize)) % ByteMod(n % wsize) =
           w1(p + wsize * (n \div wsize)) % ByteMod(n % wsize)

\* the bytes from a up to a + size lie in one free block of the heap
InFreeBlock(a, size) ==
    \E i \in DOMAIN HeapBlocks :
        /\ ~get_alloc(Cur, HeapBlocks[i])
        /\ HeapBlocks[i] <= a
        /\ a + size <= HeapBlocks[i] + get_size(Cur, HeapBlocks[i])

\* C12: a realloc(p, n) with p held and n > 0 that returns q # NULL returns a
\* block other than p, the first min(old payload size, n) bytes at q are the
\* bytes that were at p before the call, and after the call the bytes of p's
\* old block lie in a free block.
C12_ReallocMovesAndCopies ==
    [][(last'.op = "realloc" /\ calls' = calls + 1 /\ last'.ptr # NULL /\
        last'.size > 0 /\ last'.ret # NULL) =>
           (last'.ret # last'.ptr /\
            SameBytes(mem', last'.ret, mem, last'.ptr,
                      IF last'.size < get_payload_size(Cur, payload_to_header(last'.ptr))
                      THEN last'.size
                      ELSE get_payload_size(Cur, payload_to_header(last'.ptr))) /\
            \E a \in {payload_to_header(last'.ptr)} :
                \E size \in {get_size(Cur, a)} : InFreeBlock(a, size)')]_vars

\* C13: a calloc whose elements * size, as a product of integers, is more
\* than SIZE_MAX returns NULL, makes no request to mem_sbrk, and changes no
\* word of memory and no global.
C13_CallocOverflowFails ==
    [][(last'.op = "calloc" /\ calls' = calls + 1 /\
        last'.nmemb * last'.size > SIZE_MAX) =>
           (last'.ret = NULL /\ last'.sbrk = <<>> /\ mem' = mem /\
            mem_brk' = mem_brk /\ heap_start' = heap_start /\
            freelist_start' = freelist_start /\ live' = live)]_vars

\* such a calloc has returned on a heap that has a free block to give
C13_Witness ==
    Ready /\ last.op = "calloc" /\ last.nmemb * last.size > SIZE_MAX /\
    MulWrap(last.nmemb, last.size) = 0 /\ last.ret = NULL /\
    freelist_start # NULL

\* C14: from every reachable state and for every p the client holds,
\* realloc(p, 0) returns NULL and ends in the state free(p) ends in from that
\* state: the same memory words, free-list head, heap start and break.
C14_ReallocZeroIsFree ==
    [][(last'.op = "realloc" /\ calls' = calls + 1 /\ last'.ptr # NULL /\
        last'.size = 0) =>
           \E p \in {last'.ptr}, c \in {Cur} :
               \E f \in {free(c, p)} :
                   (last'.ret = NULL /\ last'.sbrk = <<>> /\ mem' = f.mem /\
                    mem_brk' = f.brk /\ heap_start' = f.hs /\
                    freelist_start' = f.fl /\ p \notin DOMAIN live')]_vars

\* realloc(p, 0) has returned and p's block is in a free block
C14_Witness ==
    Ready /\ last.op = "realloc" /\ last.ptr # NULL /\ last.size = 0 /\
    last.ret = NULL /\ freelist_start # NULL /\
    InFreeBlock(payload_to_header(last.ptr), min_block_size)

\* C15: from every reachable state, for every n > 0 and either outcome of
\* mem_sbrk, realloc(NULL, n) returns what malloc(n) returns from that state
\* and ends in the state malloc(n) ends in.
C15_ReallocNullIsMalloc ==
    [][(last'.op = "realloc" /\ calls' = calls + 1 /\ last'.ptr = NULL /\
        last'.size > 0) =>
           \E ok \in BOOLEAN, n \in {last'.size}, c \in {Cur} :
               \E m \in {malloc(c, n, ok)} :
                   (m.st.sbrk = last'.sbrk /\ last'.ret = m.ret /\
                    mem' = m.st.mem /\ mem_brk' = m.st.brk /\
                    heap_start' = m.st.hs /\ freelist_start' = m.st.fl)]_vars

\* realloc(NULL, n) has grown the heap and returned a block
C15_Witness ==
    Ready /\ last.op = "realloc" /\ last.ptr = NULL /\ last.size > 0 /\
    last.ret # NULL /\ last.sbrk # <<>> /\ last.ret \in DOMAIN live

\* both requests mm_init makes to mem_sbrk were granted
BothGranted(log) == Len(log) = 2 /\ log[1].ok /\ log[2].ok

\* the heap mm_init leaves: the prologue word, one free block of chunksize
\* bytes, the epilogue header, and that block alone in the free list
FreshHeap ==
    /\ heap_start = mem_heap_lo + wsize
    /\ Rd(Cur, mem_heap_lo) = pack(0, TRUE, TRUE)
    /\ get_size(Cur, heap_start) = chunksize
    /\ ~get_alloc(Cur, heap_start)
    /\ get_prev_alloc(Cur, heap_start)
    /\ Rd(Cur, heap_start + chunksize - wsize) = Rd(Cur, heap_start)
    /\ get_size(Cur, heap_start + chunksize) = 0
    /\ get_alloc(Cur, heap_start + chunksize)
    /\ ~get_prev_alloc(Cur, heap_start + chunksize)
    /\ heap_start + chunksize + wsize = mem_heap_lo + mem_brk
    /\ freelist_start = heap_start
    /\ Rd(Cur, heap_start + off_prev) = NULL
    /\ Rd(Cur, heap_start + off_next) = NULL

\* C16: mm_init returns true exactly when both its requests to mem_sbrk were
\* granted, and false when one was refused; when it returns true the heap is
\* the prologue word, one free block of 4096 bytes with prev_alloc set and a
\* footer equal to its header, and an allocated epilogue header of size 0
\* with prev_alloc clear, and the free list is that block with NULL links.
C16_InitResult ==
    last.op = "mm_init" =>
        ((last.ret = 1 <=> BothGranted(last.sbrk)) /\
         (last.ret # 1 => (last.ret = 0 /\ phase = "failed")) /\
         (last.ret = 1 => (phase = "run" /\ FreshHeap)))

\* mm_init has returned true
C16_Witness ==
    last.op = "mm_init" /\ last.ret = 1 /\ BothGranted(last.sbrk) /\
    mem_brk = 2 * wsize + chunksize /\ Rd(Cur, heap_start) = chunksize + prev_alloc_mask

\* C17: on a heap mm_init has just made, for every n > 0 for which
\* p = malloc(n) returns a block, free(p) followed by q = malloc(n) gives
\* q = p, and that second malloc makes no request to mem_sbrk and leaves the
\* break where it was.
C17_FreedBlockReused ==
    [][(probe.fn = "reuse" /\ last.op = "free" /\ calls = 2 /\ calls' = 3) =>
           (last'.op = "malloc" /\ last'.size = probe.size /\ probe.size > 0 /\
            last'.ret # NULL /\ last'.ret = last.ptr /\ last'.sbrk = <<>> /\
            mem_brk' = mem_brk)]_vars

\* the third call has returned the block that the first call grew the heap for
C17_Witness ==
    probe.fn = "reuse" /\ calls = 3 /\ last.op = "malloc" /\ last.ret # NULL /\
    last.ret \in DOMAIN live /\ last.sbrk = <<>> /\
    mem_brk > 2 * wsize + chunksize

\* C18: in every state after mm_init has returned true, malloc(0) returns
\* NULL, makes no request to mem_sbrk, and changes no word of memory (header,
\* footer or free-list link), nor freelist_start, heap_start or the break.
C18_MallocZeroChangesNothing ==
    [][(last'.op = "malloc" /\ calls' = calls + 1 /\ last'.size = 0) =>
           (last'.ret = NULL /\ last'.sbrk = <<>> /\ mem' = mem /\
            mem_brk' = mem_brk /\ heap_start' = heap_start /\
            freelist_start' = freelist_start /\ live' = live)]_vars

\* malloc(0) has returned on a heap with a block held and a block free
C18_Witness ==
    Ready /\ last.op = "malloc" /\ last.size = 0 /\ last.ret = NULL /\
    last.sbrk = <<>> /\ DOMAIN live # {} /\ freelist_start # NULL

\* C19: in every reachable state free(NULL) returns, stores nowhere outside
\* the heap's memory, and leaves every word of memory, freelist_start,
\* heap_start and the break as they were.
C19_FreeNullChangesNothing ==
    free(Cur, NULL) = Cur /\ ~free(Cur, NULL).bad

\* free(NULL) has returned on a heap with a block held and a block free
C19_Witness ==
    Ready /\ last.op = "free" /\ last.ptr = NULL /\ DOMAIN live # {} /\
    freelist_start # NULL /\ free(Cur, last.ptr) = Cur

\* C20: mm_checkheap returns true in every state reached after mm_init has
\* returned true and any number of completed malloc, free, realloc and calloc
\* calls with valid arguments; it never reports a failure there.
C20_CheckheapTrue ==
    Ready => mm_checkheap(Cur) = 1

\* the blocks of the free list that find_fit has met
Scanned == SubSeq(FreeList, 1, probe.examined)

\* how many of them are larger than the size asked for
ScannedLarger ==
    Cardinality({k \in 1 .. probe.examined : get_size(Cur, FreeList[k]) > probe.size})

FitDone == probe.fn = "find_fit" /\ probe.done

\* C21: one call of find_fit examines at most 50 blocks of the free list,
\* counted from the head, however many of them are too small.
C21_AtMostFiftyExamined ==
    FitDone => probe.examined <= FitLimit

\* C21 as the code has it: find_fit goes on until it has met 50 blocks larger
\* than the size asked for, or a block of exactly that size, or the end of
\* the list; a block that is too small is examined and not counted.
C21_AtMostFiftyLarger ==
    FitDone =>
        (probe.examined <= Len(FreeList) /\ ScannedLarger <= FitLimit /\
         (probe.examined < Len(FreeList) =>
             (ScannedLarger = FitLimit \/
              get_size(Cur, FreeList[probe.examined]) = probe.size)))

\* find_fit has examined more than 50 blocks, all too small
C21_Witness ==
    FitDone /\ probe.examined > FitLimit /\ ScannedLarger = 0 /\ probe.word = NULL

\* the places in the free list, among those find_fit has met, of the blocks
\* of exactly the size asked for, and of the blocks at least that large
ScannedExact == {k \in 1 .. probe.examined : get_size(Cur, FreeList[k]) = probe.size}
ScannedFits == {k \in 1 .. probe.examined : get_size(Cur, FreeList[k]) >= probe.size}

\* C22: find_fit returns the first block of exactly asize that its scan
\* meets; otherwise a block of the least size among the scanned blocks of
\* size >= asize; NULL only when no scanned block has size >= asize.  The
\* block returned is free, in the free list and of size >= asize.
C22_FindFitResult ==
    FitDone =>
        ((ScannedExact # {} =>
             probe.word = FreeList[CHOOSE k \in ScannedExact :
                                      \A j \in ScannedExact : k <= j]) /\
         (ScannedExact = {} /\ ScannedFits # {} =>
             \E k \in ScannedFits :
                 probe.word = FreeList[k] /\
                 \A j \in ScannedFits :
                     get_size(Cur, FreeList[k]) <= get_size(Cur, FreeList[j])) /\
         (probe.word = NULL => ScannedFits = {}) /\
         (probe.word # NULL =>
             (probe.word \in Range(FreeList) /\ ~get_alloc(Cur, probe.word) /\
              get_size(Cur, probe.word) >= probe.size)))

\* find_fit has passed over a larger block and returned a later, smaller one
C22_Witness ==
    FitDone /\ ScannedExact = {} /\ probe.examined >= 3 /\
    probe.word # NULL /\ probe.word # FreeList[1] /\
    get_size(Cur, probe.word) < get_size(Cur, FreeList[1])

\* how often block a is in the free list
TimesListed(a) == Cardinality({k \in DOMAIN FreeList : FreeList[k] = a})

\* a is a free block of the heap of this size and prev_alloc bit, once in the
\* free list, and the block after it has its prev_alloc bit clear
FreeBlockAt(a, size, prev_alloc) ==
    /\ a \in Range(HeapBlocks)
    /\ get_size(Cur, a) = size
    /\ ~get_alloc(Cur, a)
    /\ get_prev_alloc(Cur, a) = prev_alloc
    /\ TimesListed(a) = 1
    /\ ~get_prev_alloc(Cur, a + size)

\* the block before b is free, the block after b is free
PrevFree(b) == ~get_prev_alloc(Cur, b)
NextFree(b) == ~get_alloc(Cur, find_next(Cur, b))

\* where the free block lies that holds b once b is freed, and its size
FreedAt(b) == IF PrevFree(b) THEN find_prev(Cur, b) ELSE b
FreedSize(b) ==
    get_size(Cur, b)
    + (IF PrevFree(b) THEN get_size(Cur, find_prev(Cur, b)) ELSE 0)
    + (IF NextFree(b) THEN get_size(Cur, find_next(Cur, b)) ELSE 0)

\* C23: free(p) of a held block B leaves B's bytes in one free block that
\* starts at the free predecessor if there is one and at B otherwise, whose
\* size is B's plus that of each free neighbour, whose header has alloc clear
\* and the prev_alloc bit of the lowest block merged, which is in the free
\* list once and whose successor has prev_alloc clear; the neighbours merged
\* are no longer in the free list.
C23_FreeCoalesces ==
    [][(last'.op = "free" /\ calls' = calls + 1 /\ last'.ptr # NULL) =>
          \E b \in {payload_to_header(last'.ptr)} :
              \E a \in {FreedAt(b)}, size \in {FreedSize(b)}, n \in {find_next(Cur, b)} :
                  \E pa \in {get_prev_alloc(Cur, a)} :
                      (FreeBlockAt(a, size, pa)' /\
                       (a # b => (TimesListed(b) = 0)') /\
                       (TimesListed(n) = 0)')]_vars

\* the size of the free block that malloc hands to place: the block find_fit
\* found when mem_sbrk was not called, the block extend_heap returned otherwise
PlaceCsize(s, block, asize, sbrk) ==
    IF sbrk = <<>> THEN get_size(s, block)
    ELSE get_size(extend_heap(s, max(asize, chunksize), TRUE).st,
                  extend_heap(s, max(asize, chunksize), TRUE).ret)

\* block is allocated with size asize and the rest bytes after it are one
\* free block with prev_alloc set that is in the free list
PlacedSplit(block, asize, rest) ==
    /\ get_alloc(Cur, block)
    /\ get_size(Cur, block) = asize
    /\ TimesListed(block) = 0
    /\ (block + asize) \in Range(HeapBlocks)
    /\ ~get_alloc(Cur, block + asize)
    /\ get_size(Cur, block + asize) = rest
    /\ get_prev_alloc(Cur, block + asize)
    /\ TimesListed(block + asize) = 1

\* block is allocated with size csize, and the block after it has prev_alloc
PlacedWhole(block, csize) ==
    /\ get_alloc(Cur, block)
    /\ get_size(Cur, block) = csize
    /\ TimesListed(block) = 0
    /\ get_prev_alloc(Cur, block + csize)

\* C24: when malloc places asize into a free block of csize bytes, with
\* csize - asize >= 32 the allocated block has size asize and the other
\* csize - asize bytes are one free block with prev_alloc set, in the free
\* list; otherwise the allocated block has size csize and its successor's
\* prev_alloc bit is set.  So an allocated block is 0 or 16 bytes larger than
\* the adjusted size, and malloc(1) gives a block of 32 bytes.
C24_PlaceSplits ==
    [][(last'.op = "malloc" /\ calls' = calls + 1 /\ last'.ret # NULL) =>
          \E block \in {payload_to_header(last'.ret)}, asize \in {adjust(last'.size)},
             c \in {Cur} :
              \E csize \in {PlaceCsize(c, block, asize, last'.sbrk)} :
                  ((IF csize - asize >= min_block_size
                    THEN PlacedSplit(block, asize, csize - asize)'
                    ELSE PlacedWhole(block, csize)') /\
                   (get_size(Cur, block) - asize \in {0, dsize})' /\
                   (last'.size = 1 => (get_size(Cur, block) = min_block_size)'))]_vars

\* As C24, but malloc(1) gives a block of 32 or of 48 bytes: find_fit may
\* hand place a free block of 48 bytes, which is taken whole.
C24_PlaceSplitsOrTakesWhole ==
    [][(last'.op = "malloc" /\ calls' = calls + 1 /\ last'.ret # NULL) =>
          \E block \in {payload_to_header(last'.ret)}, asize \in {adjust(last'.size)},
             c \in {Cur} :
              \E csize \in {PlaceCsize(c, block, asize, last'.sbrk)} :
                  ((IF csize - asize >= min_block_size
                    THEN PlacedSplit(block, asize, csize - asize)'
                    ELSE PlacedWhole(block, csize)') /\
                   (get_size(Cur, block) - asize \in {0, dsize})' /\
                   (last'.size = 1 =>
                       (get_size(Cur, block) \in {min_block_size,
                                                  min_block_size + dsize})'))]_vars

\* malloc(1) has taken whole a free block of 48 bytes
C24_Witness ==
    Ready /\ last.op = "malloc" /\ last.size = 1 /\ last.ret # NULL /\
    last.sbrk = <<>> /\
    get_size(Cur, payload_to_header(last.ret)) = min_block_size + dsize /\
    get_alloc(Cur, payload_to_header(last.ret))
\* the epilogue, where extend_heap writes the header of the new block
Epilogue == payload_to_header(mem_heap_lo + mem_brk)

\* the block extend_heap returns when the heap has grown: the new block, or
\* the free block before it with which it is merged
GrownBlock == IF get_prev_alloc(Cur, Epilogue) THEN Epilogue ELSE find_prev(Cur, Epilogue)

\* C25: one malloc(n) calls mem_sbrk at most once, only when find_fit has
\* returned NULL, and then for max(asize, chunksize) bytes rounded up to a
\* multiple of 16; the new bytes are merged with the last block when that is
\* free, and the block handed to place has at least asize bytes.  free leaves
\* the break where it is and no call lowers it.
C25_GrowsOnceOnMiss ==
    [][(calls' = calls + 1) =>
          (mem_brk' >= mem_brk /\
           (last'.op = "free" => mem_brk' = mem_brk) /\
           (last'.op = "malloc" =>
               \E asize \in {adjust(last'.size)}, c \in {Cur}, g \in {GrownBlock} :
                   (Len(last'.sbrk) <= 1 /\
                    (last'.sbrk # <<>> =>
                        (find_fit(c, asize) = NULL /\
                         last'.sbrk[1].incr = round_up(max(asize, chunksize), dsize) /\
                         mem_brk' = mem_brk + (IF last'.sbrk[1].ok
                                               THEN last'.sbrk[1].incr ELSE 0) /\
                         (last'.sbrk[1].ok =>
                             (last'.ret = header_to_payload(g) /\
                              PlaceCsize(c, g, asize, last'.sbrk) >= asize /\
                              PlaceCsize(c, g, asize, last'.sbrk) =
                                  last'.sbrk[1].incr +
                                  (IF g = Epilogue THEN 0 ELSE get_size(c, g)))))))))]_vars

\* malloc has grown the heap and merged the new bytes with a free last block
C25_Witness ==
    Ready /\ last.op = "malloc" /\ Len(last.sbrk) = 1 /\ last.sbrk[1].ok /\
    last.ret # NULL /\ last.sbrk[1].incr > chunksize /\
    get_size(Cur, payload_to_header(last.ret)) = adjust(last.size) /\
    payload_to_header(last.ret) + adjust(last.size) + last.sbrk[1].incr >
        mem_heap_lo + mem_brk

\* the footer word of block b holds what its header holds
FooterIsHeader(b) == Rd(Cur, b + get_size(Cur, b) - wsize) = Rd(Cur, b)

\* what coalesce(b) finds when b's prev_alloc bit is clear and it calls
\* find_prev(b): a free block of the heap, not below heap_start, that ends
\* where b starts and whose footer, the word before b, holds its header
PrevByFooter(b) ==
    /\ find_prev(Cur, b) >= heap_start
    /\ find_prev(Cur, b) \in Range(HeapBlocks)
    /\ ~get_alloc(Cur, find_prev(Cur, b))
    /\ find_next(Cur, find_prev(Cur, b)) = b
    /\ FooterIsHeader(find_prev(Cur, b))

\* C26: after every completed call, every free block's footer word equals
\* its header word, and every block (the epilogue too) whose prev_alloc bit is
\* clear, for which coalesce would call find_prev, has before it a free
\* block whose footer is the word before the block's header and holds the
\* size in that block's header; the first block's prev_alloc bit is set, so
\* the prologue word is not used to step below heap_start.
C26_FooterGivesPredecessor ==
    Ready =>
        ((\A i \in DOMAIN HeapBlocks :
             ~get_alloc(Cur, HeapBlocks[i]) => FooterIsHeader(HeapBlocks[i])) /\
         (\A b \in Range(HeapBlocks) \cup {HeapEnd} :
             ~get_prev_alloc(Cur, b) => PrevByFooter(b)) /\
         get_prev_alloc(Cur, heap_start))

\* C27: calloc(0, size) returns for every size, whatever the division by
\* zero does; it returns NULL and changes no word of memory and no global.
C27_CallocZeroElements ==
    Ready =>
        \A size \in {0, 1, wsize, SIZE_MAX}, ok \in BOOLEAN :
            \A div0 \in DivByZero(size) :
                \E r \in {calloc(Cur, 0, size, ok, div0)} :
                    (Returned(r) /\ r.ret = NULL /\ r.st = Cur)

=============================================================================
